---- MODULE Spec2Model ----
(***************************************************************************)
(* msgboard web client: the post list renderer and the submission flow of  *)
(* the variants of app.js, run in one browser tab against the backend and  *)
(* the object store:                                                       *)
(*   "refetch"    web/app.js: presign, upload, register, awaited refetch   *)
(*   "prepend"    presign, upload, register, prepend of the created post   *)
(*   "multipart"  one multipart request, refetch that is not awaited       *)
(* The two multipart files differ only in the markup of the placeholder    *)
(* that getPosts renders (bare text in the first, a div.post in the        *)
(* second); the second one is modelled.                                    *)
(***************************************************************************)
EXTENDS Integers, Sequences, FiniteSets, TLC

\* ------------------------------------------------------------------ bounds
MaxSubmits == 2      \* submit events of the form in one behaviour
MaxLive == 2         \* the user submits while fewer calls than this are
                     \* in flight (handlers and list fetches)
InitPosts == 1       \* posts already in the database at page load
MaxMessageLen == 3   \* length of the messages the escaping is checked on

\* ---------------------------------------------------------------- variants
Variants == {"refetch", "prepend", "multipart"}

IsPresignVariant(v) == v \in {"refetch", "prepend"}

IsMultipartVariant(v) == v = "multipart"

API_BASE == "http://localhost:8000"

\* URL of a backend endpoint as the variant spells it
ApiUrl(v, path) == IF v = "refetch" THEN API_BASE \o path ELSE path

\* -------------------------------------------------------------------- text
\* a string is a sequence of one-character strings
RECURSIVE preventXSS(_)
Entity(m) ==
  CASE m = "&" -> <<"&", "a", "m", "p", ";">>
    [] m = "<" -> <<"&", "l", "t", ";">>
    [] m = ">" -> <<"&", "g", "t", ";">>
    [] m = "\"" -> <<"&", "q", "u", "o", "t", ";">>
    [] m = "'" -> <<"&", "#", "3", "9", ";">>

IsSpecial(c) == c \in {"&", "<", ">", "\"", "'"}

\* faulty variant: replace() without the g flag, only the first match is
\* substituted
preventXSS_firstOnly(s) ==
  IF \E i \in 1..Len(s) : IsSpecial(s[i])
  THEN LET i == CHOOSE j \in 1..Len(s) :
                  IsSpecial(s[j]) /\ \A k \in 1..(j - 1) : ~IsSpecial(s[k])
       IN SubSeq(s, 1, i - 1) \o Entity(s[i]) \o SubSeq(s, i + 1, Len(s))
  ELSE s

\* s.replace(/[&<>"']/g, m => table[m])
preventXSS(s) ==
  IF s = <<>> THEN <<>>
  ELSE (IF IsSpecial(Head(s)) THEN Entity(Head(s)) ELSE <<Head(s)>>)
       \o preventXSS(Tail(s))

IsSpace(c) == c \in {" ", "\n", "\t"}

RECURSIVE trimStart(_)
trimStart(s) ==
  IF s # <<>> /\ IsSpace(Head(s)) THEN trimStart(Tail(s)) ELSE s

RECURSIVE trimEnd(_)
trimEnd(s) ==
  IF s # <<>> /\ IsSpace(s[Len(s)]) THEN trimEnd(SubSeq(s, 1, Len(s) - 1))
  ELSE s

trim(s) == trimEnd(trimStart(s))

\* ------------------------------------------------------------------ inputs
null == "null"

NoFile == [name |-> "", type |-> "", size |-> 0]

\* what the user puts into the form: a message with blanks around it and
\* markup in it, with or without a file of unknown MIME type
Files == { [name |-> "cat", type |-> "", size |-> 3] }

Messages == { <<" ", "<", "b", ">", "&", " ">> }

\* error bodies the backend answers with, and the object store's statuses
ErrorTexts == { <<"bucket not configured">> }

S3Statuses == { "403" }

NetErrMessage == <<"Failed to fetch">>

JsonErrMessage == <<"Unexpected token">>

\* object key number n, and the upload descriptors the backend may issue
\* for the key k: fields is the mapping in Object.entries order
Key(n) == "uploads/" \o ToString(n)

FieldChoices(k) ==
  { << <<"Content-Type", "image/png">>, <<"key", k>>,
       <<"x-amz-signature", "ab&c">> >> }

DescriptorsFor(k) ==
  { [url |-> "https://bucket.s3.amazonaws.com/", fields |-> f, key |-> k]
      : f \in FieldChoices(k) }

NoDesc == [url |-> "", fields |-> <<>>, key |-> null]

\* --------------------------------------------------------------- responses
\* a response: kind is "ok" (2xx, body as documented), "badjson" (2xx, body
\* not JSON), "status" (not 2xx) or "neterr" (fetch rejected, with the
\* message of its TypeError); "none" while the request is in flight
NoRes == [kind |-> "none"]

NetErr == [kind |-> "neterr", text |-> NetErrMessage]

VARIABLES
  variant,      \* which app.js is loaded in the tab
  formMessage,  \* textarea[name=message].value
  formFile,     \* input[name=image].files[0], NoFile when none is selected
  btnDisabled,  \* form.querySelector("button").disabled
  sub,          \* the submit handler instances, by submit event
  gp,           \* the getPosts calls: 0 at page load, s by submission s
  list,         \* list.innerHTML, as a sequence of rendered blocks
  shown,        \* history: what wrote list last (the fetch, by issue
                \* order, and how), whether a list fetch has failed, and
                \* the kind of the response the last settled fetch got
  uploadLog,    \* history: the object keys of the storage uploads issued
  nsub,         \* submit events dispatched so far
  nfetch,       \* list fetches issued so far
  db,           \* backend: the posts, newest first
  storage,      \* object store: keys of the uploaded objects
  nextId,       \* backend: id of the next post
  nextKey       \* backend: key of the next upload descriptor

vars == <<variant, formMessage, formFile, btnDisabled, sub, gp, list, shown,
          uploadLog, nsub, nfetch, db, storage, nextId, nextKey>>

serverVars == <<db, storage, nextId, nextKey>>

Subs == 1..MaxSubmits

Fetches == 0..MaxSubmits

\* ------------------------------------------------------------ pure helpers
\* a FormData entry: a string value or a file
StrEntry(k, v) == [name |-> k, str |-> v, blob |-> NoFile]

FileEntry(k, f) == [name |-> k, str |-> "", blob |-> f]

\* JSON body of the presign request
PresignBody(file) ==
  [filename |-> file.name,
   content_type |-> IF file.type # "" THEN file.type
                    ELSE "application/octet-stream",
   size |-> file.size]

\* the for-of loop over Object.entries(presignData.fields)
RECURSIVE AppendFields(_, _)
AppendFields(fd, entries) ==
  IF entries = <<>> THEN fd
  ELSE AppendFields(Append(fd, StrEntry(Head(entries)[1], Head(entries)[2])),
                    Tail(entries))

\* faulty variant: the file is appended before the descriptor's fields
UploadFormData_fileFirst(presignData, file) ==
  <<FileEntry("file", file)>> \o AppendFields(<<>>, presignData.fields)

\* the FormData uploadToS3 builds, and the request it sends
UploadFormData(presignData, file) ==
  Append(AppendFields(<<>>, presignData.fields), FileEntry("file", file))

UploadRequest(presignData, file) ==
  [kind |-> "upload", url |-> presignData.url,
   body |-> UploadFormData(presignData, file)]

PresignRequest(v, file) ==
  [kind |-> "presign", url |-> ApiUrl(v, "/api/presign"),
   body |-> PresignBody(file)]

\* JSON body of the post registration
PostBody(message, image_key) == [message |-> message, image_key |-> image_key]

PostRequest(v, message, image_key) ==
  [kind |-> "post", url |-> ApiUrl(v, "/api/posts"),
   body |-> PostBody(message, image_key)]

\* new FormData(form): the fields of the form as they are
MultipartBody(message, file) ==
  << StrEntry("message", message), FileEntry("image", file) >>

MultipartRequest(message, file) ==
  [kind |-> "post", url |-> "/api/posts", body |-> MultipartBody(message, file)]

\* res.ok: a 2xx status, whatever the body
ResOk(res) == res.kind \in {"ok", "badjson"}

\* the outcome of a call: returned a value, or threw an error with a message
Returned(v) == [threw |-> FALSE, message |-> <<>>, value |-> v]

Threw(m) == [threw |-> TRUE, message |-> m, value |-> NoDesc]

\* await res.json()
JsonThrows(res) == res.kind = "badjson"

\* presign(file), from the response to its fetch on
presign(res) ==
  IF res.kind = "neterr" THEN Threw(NetErrMessage)
  ELSE IF ~ResOk(res) THEN Threw(res.text)
  ELSE IF JsonThrows(res) THEN Threw(JsonErrMessage)
  ELSE Returned(res.desc)

\* faulty variant: the status of the upload response is not looked at
uploadToS3_unchecked(r) ==
  IF r.kind = "neterr" THEN Threw(NetErrMessage) ELSE Returned(NoDesc)

\* uploadToS3(presignData, file), from the response to its fetch on
uploadToS3(r) ==
  IF r.kind = "neterr" THEN Threw(NetErrMessage)
  ELSE IF ~ResOk(r) THEN Threw(<<"S3 upload failed: ", r.status>>)
  ELSE Returned(NoDesc)

\* a rendered <div class="post"> block
PostBlock(p) ==
  [cls |-> "post",
   h3 |-> preventXSS(p.message),
   img |-> IF p.image_url # null THEN <<p.image_url>> ELSE <<>>,
   meta |-> <<p.id, p.created_at>>]

\* faulty variant: the blocks are joined in reverse order
RECURSIVE RenderPosts_reversed(_)
RenderPosts_reversed(data) ==
  IF data = <<>> THEN <<>>
  ELSE RenderPosts_reversed(Tail(data)) \o <<PostBlock(Head(data))>>

\* json.data.map(p => block).join("")
RECURSIVE RenderPosts(_)
RenderPosts(data) ==
  IF data = <<>> THEN <<>>
  ELSE <<PostBlock(Head(data))>> \o RenderPosts(Tail(data))

\* the "unable to fetch" placeholder
Placeholder ==
  [cls |-> "post", h3 |-> <<"unable to fetch posts">>, img |-> <<>>,
   meta |-> <<>>]

\* faulty variant: insertAdjacentHTML("beforeend", html)
InsertAfterBegin_beforeEnd(l, html) == l \o <<html>>

\* list.insertAdjacentHTML("afterbegin", html)
InsertAfterBegin(l, html) == <<html>> \o l

AlertText(v, message) ==
  IF IsPresignVariant(v) THEN <<"upload failed: ">> \o message
  ELSE <<"upload failed ">> \o message

\* ------------------------------------------------------------------- state
IdleSub ==
  [pc |-> "idle", step |-> "none", message |-> <<>>, file |-> NoFile,
   presignData |-> NoDesc, image_key |-> null, res |-> NoRes,
   issued |-> <<>>, got |-> <<>>, alerts |-> <<>>, outcome |-> "none",
   posted |-> FALSE]

\* history: what a handler got back for the request of a step
Got(step, res) ==
  [step |-> step, kind |-> res.kind,
   text |-> IF res.kind = "status" /\ step = "upload" THEN <<res.status>>
            ELSE IF res.kind \in {"status", "neterr"} THEN res.text
            ELSE <<>>,
   desc |-> IF step = "presign" /\ res.kind = "ok" THEN res.desc ELSE NoDesc,
   id |-> IF step = "post" /\ ResOk(res) THEN res.post.id ELSE 0]

IdleFetch == [pc |-> "idle", res |-> NoRes, order |-> 0]

\* the getPosts() call at the end of the script: its fetch is in flight
PageLoadFetch == [IdleFetch EXCEPT !.pc = "fetch", !.order = 1]

\* backend: post number i of the database at page load
InitPost(i) ==
  [id |-> i, message |-> <<"o", "l", "d">>, image_url |-> null,
   created_at |-> i]

InitDb(n) == [i \in 1..n |-> InitPost(n + 1 - i)]

Init ==
  /\ variant \in Variants
  /\ formMessage = <<>>
  /\ formFile = NoFile
  /\ btnDisabled = FALSE
  /\ sub = [s \in Subs |-> IdleSub]
  /\ gp = [g \in Fetches |-> IF g = 0 THEN PageLoadFetch ELSE IdleFetch]
  /\ list = <<>>
  /\ shown = [order |-> 0, how |-> "none", failed |-> FALSE,
              last |-> "none"]
  /\ uploadLog = <<>>
  /\ nsub = 0
  /\ nfetch = 1
  /\ db = InitDb(InitPosts)
  /\ nextId = InitPosts + 1
  /\ storage = {}
  /\ nextKey = 1

\* ---------------------------------------------------------- submit handler
\* faulty variant: the presign branch is taken whether or not a file is selected
HasFile_always(file) == TRUE

\* if (file)
HasFile(file) == file # NoFile

\* faulty variant: the key is taken from the wrong member of the descriptor
UploadedKey_url(presignData) == presignData.url

\* image_key = presignData.key
UploadedKey(presignData) == presignData.key

\* faulty variant: the button is not enabled again
FinallyDisabled_stuck == TRUE

\* finally { btn.disabled = false }
FinallyDisabled == FALSE

\* the requests of the handler, in the order it issued them
IssuePresign(issued, v, file) == Append(issued, PresignRequest(v, file))

\* faulty variant: the upload is sent twice
IssueUpload_twice(issued, presignData, file) ==
  Append(Append(issued, UploadRequest(presignData, file)),
         UploadRequest(presignData, file))

IssueUpload(issued, presignData, file) ==
  Append(issued, UploadRequest(presignData, file))

IssuePost(issued, v, message, image_key) ==
  Append(issued, PostRequest(v, message, image_key))

\* The locals of a handler die with it: the record of a finished handler
\* is kept until the next submit event only
ForgetSub(h) == IF h.pc = "done" THEN IdleSub ELSE h

\* the handlers and the getPosts() calls in flight
LiveCalls ==
  Cardinality({s \in Subs : sub[s].pc \notin {"idle", "done"}})
  + Cardinality({g \in Fetches : gp[g].pc = "fetch"})

\* a submit event is dispatched only while the submit button is enabled
CanSubmit ==
  /\ ~btnDisabled
  /\ nsub < MaxSubmits
  /\ LiveCalls < MaxLive

\* what the user has put into the form when the submit event is dispatched
FormInputs == Messages \X (Files \cup {NoFile})

\* presign variants: the user fills in the form and submits it; the handler
\* runs up to its first await
SubmitPresign ==
  /\ IsPresignVariant(variant)
  /\ CanSubmit
  /\ \E input \in FormInputs :
     LET s == nsub + 1
         message == trim(input[1])
         file == input[2]
     IN /\ formMessage' = input[1]
        /\ formFile' = input[2]
        /\ nsub' = s
        /\ btnDisabled' = TRUE
        /\ sub' = [t \in Subs |->
             IF t # s THEN ForgetSub(sub[t])
             ELSE IF HasFile(file)
             THEN [IdleSub EXCEPT !.pc = "presign", !.message = message,
                     !.file = file,
                     !.issued = IssuePresign(<<>>, variant, file)]
             ELSE [IdleSub EXCEPT !.pc = "post", !.message = message,
                     !.file = file,
                     !.issued = IssuePost(<<>>, variant, message, null)]]
  /\ UNCHANGED <<variant, gp, list, shown, uploadLog, nfetch, serverVars>>

\* the ways a call fails without its server changing anything: a 2xx body
\* that is not JSON, a refusal, or a rejected fetch
PresignFailures ==
  {[kind |-> "badjson", text |-> <<>>, desc |-> NoDesc], NetErr}
    \cup {[kind |-> "status", text |-> t, desc |-> NoDesc] : t \in ErrorTexts}

UploadFailures == {[kind |-> "status", status |-> st] : st \in S3Statuses}
                    \cup {NetErr}

PostFailures == {[kind |-> "status", text |-> t] : t \in ErrorTexts}
                  \cup {NetErr}

ListFailures == {[kind |-> "badjson", data |-> <<>>],
                 [kind |-> "status", data |-> <<>>], NetErr}

\* the response a continuation resumes with: the one its server sent, or,
\* while none was sent, any of the failures of the call
Arrived(res, failures) == IF res.kind # "none" THEN {res} ELSE failures

\* catch (err) { alert(...) } finally { btn.disabled = false }
Caught(h, res, v, message) ==
  [h EXCEPT !.step = h.pc, !.pc = "done", !.outcome = "caught",
            !.res = NoRes,
            !.got = IF h.pc = "getPosts" THEN @ ELSE Append(@, Got(h.pc, res)),
            !.alerts = Append(@, AlertText(v, message))]

\* presign(file) settled: uploadToS3 starts, or the error is caught
PresignReturn(s) ==
  /\ sub[s].pc = "presign"
  /\ \E res \in Arrived(sub[s].res, PresignFailures) :
     LET r == presign(res)
     IN IF r.threw
        THEN /\ sub' = [sub EXCEPT ![s] = Caught(@, res, variant, r.message)]
             /\ btnDisabled' = FinallyDisabled
             /\ UNCHANGED uploadLog
        ELSE /\ sub' = [sub EXCEPT ![s] =
                  [@ EXCEPT !.pc = "upload", !.presignData = r.value,
                            !.res = NoRes,
                            !.got = Append(@, Got("presign", res)),
                            !.issued = IssueUpload(@, r.value, sub[s].file)]]
             /\ uploadLog' = Append(uploadLog, r.value.key)
             /\ UNCHANGED btnDisabled
  /\ UNCHANGED <<variant, formMessage, formFile, gp, list, shown, nsub,
                 nfetch, serverVars>>

\* uploadToS3 settled: the post is registered, or the error is caught
UploadReturn(s) ==
  /\ sub[s].pc = "upload"
  /\ \E res \in Arrived(sub[s].res, UploadFailures) :
     LET r == uploadToS3(res)
         image_key == UploadedKey(sub[s].presignData)
     IN IF r.threw
        THEN /\ sub' = [sub EXCEPT ![s] = Caught(@, res, variant, r.message)]
             /\ btnDisabled' = FinallyDisabled
        ELSE /\ sub' = [sub EXCEPT ![s] =
                  [@ EXCEPT !.pc = "post", !.image_key = image_key,
                            !.res = NoRes,
                            !.got = Append(@, Got("upload", res)),
                            !.issued = IssuePost(@, variant, sub[s].message,
                                                 image_key)]]
             /\ UNCHANGED btnDisabled
  /\ UNCHANGED <<variant, formMessage, formFile, gp, list, shown, uploadLog,
                 nsub, nfetch, serverVars>>

\* the error the handler throws at "if (!res.ok) throw new Error(text)"
postError(res) ==
  IF res.kind = "neterr" THEN Threw(NetErrMessage)
  ELSE IF ~ResOk(res) THEN Threw(res.text)
  ELSE Returned(NoDesc)

\* a getPosts() call starts: its fetch is issued
StartedFetch(n) == [IdleFetch EXCEPT !.pc = "fetch", !.order = n + 1]

\* refetch variant: the registration settled; on success the form is reset
\* and getPosts() is awaited
PostReturnRefetch(s) ==
  /\ variant = "refetch"
  /\ sub[s].pc = "post"
  /\ \E res \in Arrived(sub[s].res, PostFailures) :
     LET r == postError(res)
     IN IF r.threw
        THEN /\ sub' = [sub EXCEPT ![s] = Caught(@, res, variant, r.message)]
             /\ btnDisabled' = FinallyDisabled
             /\ UNCHANGED <<formMessage, formFile, gp, nfetch>>
        ELSE /\ sub' = [sub EXCEPT ![s] =
                  [@ EXCEPT !.pc = "getPosts", !.posted = TRUE, !.res = NoRes,
                            !.got = Append(@, Got("post", res))]]
             /\ formMessage' = <<>>
             /\ formFile' = NoFile
             /\ gp' = [gp EXCEPT ![s] = StartedFetch(nfetch)]
             /\ nfetch' = nfetch + 1
             /\ UNCHANGED btnDisabled
  /\ UNCHANGED <<variant, list, shown, uploadLog, nsub, serverVars>>

\* prepend variant: the registration settled; on success the created post
\* is parsed, prepended and the form is reset
PostReturnPrepend(s) ==
  /\ variant = "prepend"
  /\ sub[s].pc = "post"
  /\ \E res \in Arrived(sub[s].res, PostFailures) :
     LET r == postError(res)
     IN IF r.threw
        THEN /\ sub' = [sub EXCEPT ![s] = Caught(@, res, variant, r.message)]
             /\ UNCHANGED <<formMessage, formFile, list, shown>>
        ELSE IF JsonThrows(res)
        THEN /\ sub' = [sub EXCEPT ![s] =
                  [Caught(@, res, variant, JsonErrMessage)
                     EXCEPT !.posted = TRUE]]
             /\ UNCHANGED <<formMessage, formFile, list, shown>>
        ELSE /\ sub' = [sub EXCEPT ![s] =
                  [@ EXCEPT !.step = "post", !.pc = "done", !.posted = TRUE,
                            !.outcome = "ok", !.res = NoRes,
                            !.got = Append(@, Got("post", res))]]
             /\ list' = InsertAfterBegin(list, PostBlock(res.post))
             /\ shown' = [shown EXCEPT !.how = "prepended"]
             /\ formMessage' = <<>>
             /\ formFile' = NoFile
  /\ btnDisabled' = FinallyDisabled
  /\ UNCHANGED <<variant, gp, uploadLog, nsub, nfetch, serverVars>>

\* multipart variants: the user fills in the form and submits it; the
\* handler runs up to its await and leaves the button alone
SubmitMultipart ==
  /\ IsMultipartVariant(variant)
  /\ CanSubmit
  /\ \E input \in FormInputs :
     LET s == nsub + 1
     IN /\ formMessage' = input[1]
        /\ formFile' = input[2]
        /\ nsub' = s
        /\ sub' = [t \in Subs |->
             IF t # s THEN ForgetSub(sub[t])
             ELSE [IdleSub EXCEPT !.pc = "post", !.message = input[1],
                     !.file = input[2],
                     !.issued = <<MultipartRequest(input[1], input[2])>>]]
  /\ UNCHANGED <<variant, btnDisabled, gp, list, shown, uploadLog, nfetch,
                 serverVars>>

\* faulty variant: no return after the alert, the handler falls through to
\* form.reset() and getPosts()
AlertReturns_fallsThrough == FALSE

\* if (!res.ok) { alert(...); return; }
AlertReturns == TRUE

\* multipart variants: the registration settled. A rejected fetch is not
\* caught; a non-2xx answer is alerted; on success the form is reset and
\* getPosts() is started without being awaited
PostReturnMultipart(s) ==
  /\ IsMultipartVariant(variant)
  /\ sub[s].pc = "post"
  /\ \E res \in Arrived(sub[s].res, PostFailures) :
     IF res.kind = "neterr"
     THEN /\ sub' = [sub EXCEPT ![s] =
               [@ EXCEPT !.step = "post", !.pc = "done", !.res = NoRes,
                         !.got = Append(@, Got("post", res)),
                         !.outcome = "unhandled"]]
          /\ UNCHANGED <<formMessage, formFile, gp, nfetch>>
     ELSE IF ~ResOk(res)
     THEN /\ sub' = [sub EXCEPT ![s] =
               [@ EXCEPT !.step = "post", !.pc = "done", !.res = NoRes,
                         !.got = Append(@, Got("post", res)),
                         !.outcome = "alerted",
                         !.alerts = Append(@, AlertText(variant, res.text))]]
          /\ IF AlertReturns
             THEN UNCHANGED <<formMessage, formFile, gp, nfetch>>
             ELSE /\ formMessage' = <<>>
                  /\ formFile' = NoFile
                  /\ gp' = [gp EXCEPT ![s] = StartedFetch(nfetch)]
                  /\ nfetch' = nfetch + 1
     ELSE /\ sub' = [sub EXCEPT ![s] =
               [@ EXCEPT !.step = "post", !.pc = "done", !.posted = TRUE,
                         !.got = Append(@, Got("post", res)),
                         !.res = NoRes, !.outcome = "ok"]]
          /\ formMessage' = <<>>
          /\ formFile' = NoFile
          /\ gp' = [gp EXCEPT ![s] = StartedFetch(nfetch)]
          /\ nfetch' = nfetch + 1
  /\ UNCHANGED <<variant, btnDisabled, list, shown, uploadLog, nsub,
                 serverVars>>

\* ---------------------------------------------------------------- getPosts
\* getPosts(), from the response to its fetch on: the new list.innerHTML,
\* or the error its promise rejects with
getPosts(res, l) ==
  IF res.kind = "neterr"
  THEN [threw |-> TRUE, message |-> NetErrMessage, list |-> l]
  ELSE IF ~ResOk(res)
  THEN [threw |-> FALSE, message |-> <<>>, list |-> <<Placeholder>>]
  ELSE IF JsonThrows(res)
  THEN [threw |-> TRUE, message |-> JsonErrMessage, list |-> l]
  ELSE [threw |-> FALSE, message |-> <<>>, list |-> RenderPosts(res.data)]

\* what a settled getPosts() call did to the list
Shown(old, f, res, r) ==
  IF r.threw THEN [old EXCEPT !.failed = TRUE, !.last = res.kind]
  ELSE [order |-> f.order,
        how |-> IF ResOk(res) THEN "rendered" ELSE "placeholder",
        failed |-> old.failed \/ ~ResOk(res),
        last |-> res.kind]

\* the fetch of a getPosts() call settled. In the refetch variant the
\* handler awaiting the call resumes in the same turn: catch or finally
GetPostsReturn(g) ==
  /\ gp[g].pc = "fetch"
  /\ \E res \in Arrived(gp[g].res, ListFailures) :
     LET r == getPosts(res, list)
     IN /\ list' = r.list
        /\ shown' = Shown(shown, gp[g], res, r)
        /\ gp' = [gp EXCEPT ![g] = IdleFetch]
        /\ IF variant = "refetch" /\ g # 0
           THEN /\ sub' = [sub EXCEPT ![g] =
                     IF r.threw THEN Caught(@, res, variant, r.message)
                     ELSE [@ EXCEPT !.step = "getPosts", !.pc = "done",
                                    !.res = NoRes, !.outcome = "ok"]]
                /\ btnDisabled' = FinallyDisabled
           ELSE UNCHANGED <<sub, btnDisabled>>
  /\ UNCHANGED <<variant, formMessage, formFile, uploadLog, nsub, nfetch,
                 serverVars>>

\* ----------------------------------------------- backend and object store
Deliver(lost, res) == IF lost THEN NetErr ELSE res

\* POST /api/presign answers with a fresh descriptor
ServePresign(s) ==
  /\ sub[s].pc = "presign"
  /\ sub[s].res.kind = "none"
  /\ \E d \in DescriptorsFor(Key(nextKey)) :
       /\ sub' = [sub EXCEPT ![s].res =
            [kind |-> "ok", text |-> <<>>, desc |-> d]]
       /\ nextKey' = nextKey + 1
  /\ UNCHANGED <<variant, formMessage, formFile, btnDisabled, gp, list,
                 shown, uploadLog, nsub, nfetch, db, storage, nextId>>

\* the value of the form field "key": the object the store writes
KeyField(body) ==
  LET i == CHOOSE j \in 1..Len(body) : body[j].name = "key"
  IN body[i].str

HasKeyField(body) == \E j \in 1..Len(body) : body[j].name = "key"

\* the object store stores the object under the form's key; its answer
\* may be lost
ServeUpload(s) ==
  /\ sub[s].pc = "upload"
  /\ sub[s].res.kind = "none"
  /\ LET body == sub[s].issued[Len(sub[s].issued)].body
     IN /\ HasKeyField(body)
        /\ \E lost \in BOOLEAN :
             sub' = [sub EXCEPT ![s].res =
               Deliver(lost, [kind |-> "ok", status |-> "204"])]
        /\ storage' = storage \cup {KeyField(body)}
  /\ UNCHANGED <<variant, formMessage, formFile, btnDisabled, gp, list,
                 shown, uploadLog, nsub, nfetch, db, nextId, nextKey>>

ImageUrl(key) == IF key = null THEN null ELSE "https://cdn/" \o key

NewPost(id, message, image_key) ==
  [id |-> id, message |-> message, image_url |-> ImageUrl(image_key),
   created_at |-> id]

\* POST /api/posts: the post is created and answered; the answer may be
\* lost. The 2xx body matters to the prepend variant only, which parses it:
\* it is the created post as JSON, or not JSON. A multipart body has its
\* image stored by the backend itself
ServePost(s) ==
  /\ sub[s].pc = "post"
  /\ sub[s].res.kind = "none"
  /\ LET body == sub[s].issued[Len(sub[s].issued)].body
         multipart == IsMultipartVariant(variant)
         stored == multipart /\ body[2].blob # NoFile
         key == IF multipart
                THEN (IF stored THEN Key(nextKey) ELSE null)
                ELSE body.image_key
         message == IF multipart THEN body[1].str ELSE body.message
         post == NewPost(nextId, message, key)
         kinds == IF variant = "prepend" THEN {"ok", "badjson"} ELSE {"ok"}
     IN /\ \E k \in kinds, lost \in BOOLEAN :
             sub' = [sub EXCEPT ![s].res =
               Deliver(lost, [kind |-> k, text |-> <<>>, post |-> post])]
        /\ db' = <<post>> \o db
        /\ nextId' = nextId + 1
        /\ storage' = IF stored THEN storage \cup {key} ELSE storage
        /\ nextKey' = IF stored THEN nextKey + 1 ELSE nextKey
  /\ UNCHANGED <<variant, formMessage, formFile, btnDisabled, gp, list,
                 shown, uploadLog, nsub, nfetch>>

\* GET /api/posts answers with the posts as they are when it is served
ServeList(g) ==
  /\ gp[g].pc = "fetch"
  /\ gp[g].res.kind = "none"
  /\ gp' = [gp EXCEPT ![g].res = [kind |-> "ok", data |-> db]]
  /\ UNCHANGED <<variant, formMessage, formFile, btnDisabled, sub, list,
                 shown, uploadLog, nsub, nfetch, serverVars>>

\* ----------------------------------------------------------- specification
Next ==
  \/ SubmitPresign
  \/ SubmitMultipart
  \/ \E s \in Subs : PresignReturn(s)
  \/ \E s \in Subs : UploadReturn(s)
  \/ \E s \in Subs : PostReturnRefetch(s)
  \/ \E s \in Subs : PostReturnPrepend(s)
  \/ \E s \in Subs : PostReturnMultipart(s)
  \/ \E g \in Fetches : GetPostsReturn(g)
  \/ \E s \in Subs : ServePresign(s)
  \/ \E s \in Subs : ServeUpload(s)
  \/ \E s \in Subs : ServePost(s)
  \/ \E g \in Fetches : ServeList(g)

Spec == Init /\ [][Next]_vars

\* -------------------------------------------- rendering of stored messages
\* the page is loaded with one stored post whose message is any text over
\* the five substituted characters and an ordinary one
XSSChars == {"&", "<", ">", "\"", "'", "a"}

XSSMessages == UNION {[1..n -> XSSChars] : n \in 0..MaxMessageLen}

XSSInit ==
  /\ variant \in Variants
  /\ formMessage = <<>>
  /\ formFile = NoFile
  /\ btnDisabled = FALSE
  /\ sub = [s \in Subs |-> IdleSub]
  /\ gp = [g \in Fetches |-> IF g = 0 THEN PageLoadFetch ELSE IdleFetch]
  /\ list = <<>>
  /\ shown = [order |-> 0, how |-> "none", failed |-> FALSE,
              last |-> "none"]
  /\ uploadLog = <<>>
  /\ nsub = 0
  /\ nfetch = 1
  /\ \E m \in XSSMessages : db = <<NewPost(1, m, null)>>
  /\ storage = {}
  /\ nextId = 2
  /\ nextKey = 1

XSSNext ==
  \/ \E g \in Fetches : ServeList(g)
  \/ \E g \in Fetches : GetPostsReturn(g)

XSSSpec == XSSInit /\ [][XSSNext]_vars

\* ------------------------------------------------------------------ claims
\* a handler that has started and not finished
Live(s) == sub[s].pc \notin {"idle", "done"}

\* the continuation of the handler after its await
Resume(s) ==
  \/ PresignReturn(s)
  \/ UploadReturn(s)
  \/ PostReturnRefetch(s)
  \/ PostReturnPrepend(s)
  \/ PostReturnMultipart(s)
  \/ GetPostsReturn(s)

\* the text t occurs in the text a
Contains(a, t) ==
  \E i \in 1..(Len(a) - Len(t) + 1) : SubSeq(a, i, i + Len(t) - 1) = t

\* C1: in the presign variants a submission with a file selected issues
\* presign, storage upload, post registration in that order, each at most
\* once, and issues a step only after the step before it returned success
C1_PresignUploadPostInOrder ==
  \A s \in Subs :
    (IsPresignVariant(variant) /\ sub[s].pc # "idle" /\ sub[s].file # NoFile)
    => LET n == Len(sub[s].issued)
       IN /\ n \in 1..3
          /\ \A i \in 1..n :
               sub[s].issued[i].kind = <<"presign", "upload", "post">>[i]
          /\ \A i \in 2..n :
               /\ Len(sub[s].got) >= i - 1
               /\ sub[s].got[i - 1].kind = "ok"

C1_Witness ==
  \E s \in Subs :
    /\ sub[s].file # NoFile
    /\ Len(sub[s].issued) = 3
    /\ sub[s].issued[3].kind = "post"

\* C2: a post registration carries a non-null image_key only after the
\* storage upload of the same submission returned success, the key is the
\* key of the descriptor that submission's presign returned, and every post
\* of the database that has an image refers to a stored object
C2_ImageKeyOnlyAfterUpload ==
  /\ \A s \in Subs : \A i \in 1..Len(sub[s].issued) :
       ( /\ IsPresignVariant(variant)
         /\ sub[s].issued[i].kind = "post"
         /\ sub[s].issued[i].body.image_key # null )
       => /\ i = 3
          /\ sub[s].issued[2].kind = "upload"
          /\ sub[s].got[1].kind = "ok"
          /\ sub[s].got[2].kind = "ok"
          /\ sub[s].issued[i].body.image_key = sub[s].got[1].desc.key
  /\ \A j \in 1..Len(db) :
       db[j].image_url # null
       => \E k \in storage : db[j].image_url = ImageUrl(k)

C2_Witness ==
  /\ IsPresignVariant(variant)
  /\ \E j \in 1..Len(db) : db[j].image_url # null

\* C3: a submission with no file selected issues only the post
\* registration, never presign or storage upload, and the registration
\* carries image_key = null (JSON variants) or no file and no key field
\* (multipart variants)
C3_NoFileNoPresign ==
  \A s \in Subs :
    (sub[s].pc # "idle" /\ sub[s].file = NoFile)
    => \A i \in 1..Len(sub[s].issued) :
         /\ sub[s].issued[i].kind = "post"
         /\ IsPresignVariant(variant)
            => sub[s].issued[i].body.image_key = null
         /\ IsMultipartVariant(variant)
            => \A j \in 1..Len(sub[s].issued[i].body) :
                 /\ sub[s].issued[i].body[j].name # "image_key"
                 /\ sub[s].issued[i].body[j].blob = NoFile

C3_Witness ==
  \E s \in Subs :
    /\ sub[s].file = NoFile
    /\ sub[s].pc = "done"
    /\ sub[s].posted

\* C4: in every variant, when a step of a submission fails (non-success
\* status or transport failure) no later step is issued, an alert holding
\* the failure's message is shown and the submit control is enabled
C4_FailureAlertsAndReenables ==
  \A s \in Subs :
    ( /\ sub[s].pc = "done"
      /\ sub[s].got # <<>>
      /\ sub[s].got[Len(sub[s].got)].kind \in {"status", "neterr"} )
    => /\ Len(sub[s].issued) = Len(sub[s].got)
       /\ ~btnDisabled
       /\ \E a \in 1..Len(sub[s].alerts) :
            Contains(sub[s].alerts[a], sub[s].got[Len(sub[s].got)].text)

\* C5: two submissions of the form are never in flight at the same time
C5_NoConcurrentSubmissions ==
  Cardinality({s \in Subs : Live(s)}) <= 1

\* C6: once a submission has succeeded and every list fetch has completed
\* without failure, the created post is in the rendered list exactly once
C6_NewPostShownOnce ==
  \A s \in Subs :
    ( /\ sub[s].pc = "done"
      /\ sub[s].outcome = "ok"
      /\ sub[s].posted
      /\ ~shown.failed
      /\ \A g \in Fetches : gp[g].pc = "idle" )
    => Cardinality({i \in 1..Len(list) :
                      /\ list[i].meta # <<>>
                      /\ list[i].meta[1] = sub[s].got[Len(sub[s].got)].id}) = 1

\* C7: the submit control is disabled only while a submission is in
\* progress (so a finished submission leaves it enabled), and a submission
\* in progress awaits a network call whose completion, by an answer or by
\* a failure, resumes it
C7_DisabledOnlyWhileSubmitting ==
  /\ btnDisabled => \E s \in Subs : Live(s)
  /\ \A s \in Subs : Live(s) => ENABLED Resume(s)

C7_Witness ==
  \E s \in Subs :
    /\ IsPresignVariant(variant)
    /\ sub[s].pc = "done"
    /\ sub[s].outcome = "caught"
    /\ ~btnDisabled

\* C8: a submission issues each of presign, storage upload and post
\* registration at most once and nothing else, nothing at all after a
\* failed step, and no two storage uploads use the same descriptor
C8_NoRetryNoReuseNoRollback ==
  /\ \A s \in Subs :
       /\ \A i, j \in 1..Len(sub[s].issued) :
            i # j => sub[s].issued[i].kind # sub[s].issued[j].kind
       /\ \A i \in 1..Len(sub[s].issued) :
            sub[s].issued[i].kind \in {"presign", "upload", "post"}
       /\ sub[s].outcome = "caught" => Len(sub[s].issued) = Len(sub[s].got)
  /\ \A i, j \in 1..Len(uploadLog) : i # j => uploadLog[i] # uploadLog[j]

C8_Witness ==
  /\ Len(uploadLog) = 2
  /\ \E s \in Subs :
       /\ sub[s].outcome = "caught"
       /\ sub[s].step = "post"
       /\ Len(sub[s].issued) = 3
       /\ sub[s].issued[2].body[2].str \in storage

\* C9: the form sent to the object store holds the entries of the
\* descriptor's fields, each key and value as issued and in order, then
\* the selected file under the name "file", and goes to the descriptor's URL
C9_FieldsForwardedVerbatim ==
  \A s \in Subs : \A i \in 1..Len(sub[s].issued) :
    sub[s].issued[i].kind = "upload"
    => LET d == sub[s].got[1].desc
           body == sub[s].issued[i].body
           n == Len(d.fields)
       IN /\ sub[s].issued[i].url = d.url
          /\ Len(body) = n + 1
          /\ \A j \in 1..n :
               /\ body[j].name = d.fields[j][1]
               /\ body[j].str = d.fields[j][2]
               /\ body[j].blob = NoFile
          /\ body[n + 1].name = "file"
          /\ body[n + 1].blob = sub[s].file

C9_Witness ==
  \E s \in Subs :
    /\ Len(sub[s].issued) >= 2
    /\ sub[s].issued[2].kind = "upload"
    /\ Len(sub[s].issued[2].body) = 4

\* C10: a successful list fetch whose response holds N posts replaces the
\* list by exactly N blocks, the i-th one rendering the i-th post
C10_ListRendersResponseInOrder ==
  [][\A g \in Fetches :
       (gp[g].pc = "fetch" /\ gp[g].res.kind = "ok" /\ gp'[g].pc = "idle")
       => /\ Len(list') = Len(gp[g].res.data)
          /\ \A i \in 1..Len(list') :
               list'[i] = PostBlock(gp[g].res.data[i])]_vars

C10_Witness ==
  /\ shown.how = "rendered"
  /\ Len(list) = InitPosts + 1

\* C11: whenever a list fetch fails, by a non-success status or by a
\* network/transport failure, the list becomes the one "unable to fetch"
\* placeholder, the call is over and no request is issued in its place
C11_ListFailureShowsPlaceholder ==
  [][\A g \in Fetches :
       (/\ gp[g].pc = "fetch"
        /\ gp'[g].pc = "idle"
        /\ shown'.last \in {"status", "neterr"})
       => /\ list' = <<Placeholder>>
          /\ nfetch' = nfetch
          /\ \A h \in Fetches : gp'[h].pc = "fetch" => gp[h].pc = "fetch"]_vars

\* the substitution table of the escaping
SubstitutionTable ==
  ("&" :> <<"&", "a", "m", "p", ";">>) @@ ("<" :> <<"&", "l", "t", ";">>)
    @@ (">" :> <<"&", "g", "t", ";">>)
    @@ ("\"" :> <<"&", "q", "u", "o", "t", ";">>)
    @@ ("'" :> <<"&", "#", "3", "9", ";">>)

Substitute(c) ==
  IF c \in DOMAIN SubstitutionTable THEN SubstitutionTable[c] ELSE <<c>>

\* where the text that stands for s[i] starts in the escaped text, less one
RECURSIVE Offset(_, _)
Offset(s, i) ==
  IF i = 1 THEN 0 ELSE Offset(s, i - 1) + Len(Substitute(s[i - 1]))

\* out is s with every character replaced by what the table gives for it
IsEscapeOf(out, s) ==
  /\ Len(out) = Offset(s, Len(s) + 1)
  /\ \A i \in 1..Len(s) :
       SubSeq(out, Offset(s, i) + 1, Offset(s, i + 1)) = Substitute(s[i])

NoRawMarkup(out) ==
  \A k \in 1..Len(out) : out[k] \notin {"<", ">", "\"", "'"}

\* C12: the message in a rendered block is the stored message with each of
\* & < > " ' replaced by its entity and every other character kept, so it
\* holds no raw < > " or '
C12_MessageEscapedByTable ==
  shown.how = "rendered"
  => /\ Len(list) = Len(db)
     /\ \A i \in 1..Len(list) :
          /\ IsEscapeOf(list[i].h3, db[i].message)
          /\ NoRawMarkup(list[i].h3)

C12_Witness ==
  /\ shown.how = "rendered"
  /\ Len(db[1].message) = MaxMessageLen
  /\ \E i, j, k \in 1..Len(db[1].message) :
       /\ i # j
       /\ IsSpecial(db[1].message[i])
       /\ IsSpecial(db[1].message[j])
       /\ ~IsSpecial(db[1].message[k])

\* C13: prependPost(post) puts one rendered block for the post in front of
\* the list, keeps the blocks that were there, in their order, and issues
\* no request
C13_PrependInsertsOneBlockInFront ==
  [][\A s \in Subs :
       (/\ variant = "prepend"
        /\ sub[s].pc = "post"
        /\ sub'[s].pc = "done"
        /\ sub'[s].outcome = "ok")
       => /\ Len(list') = Len(list) + 1
          /\ list'[1] = PostBlock(sub[s].res.post)
          /\ \A i \in 1..Len(list) : list'[i + 1] = list[i]
          /\ sub'[s].issued = sub[s].issued
          /\ gp' = gp
          /\ nfetch' = nfetch]_vars

C13_Witness ==
  \E s \in Subs :
    /\ variant = "prepend"
    /\ sub[s].pc = "done"
    /\ sub[s].outcome = "ok"
    /\ shown.how = "prepended"
    /\ Len(list) >= 2
    /\ list[1].meta[1] = sub[s].got[Len(sub[s].got)].id

\* C14: once the registration request of a submission has returned
\* success, no failure alert is shown for that submission, whatever happens
\* to the list refetch or to the parsing of the response
C14_NoAlertAfterPostRegistered ==
  \A s \in Subs : sub[s].posted => sub[s].alerts = <<>>

\* C15: a submission that fails at presign, storage upload or registration
\* leaves the message text, the file selection and the rendered list as
\* they are, and the form is cleared only by a submission whose
\* registration request returned success
C15_FailureLeavesFormAndList ==
  [][/\ \A s \in Subs :
          (/\ sub[s].pc \in {"presign", "upload", "post"}
           /\ sub'[s].pc = "done"
           /\ ~sub'[s].posted)
          => /\ formMessage' = formMessage
             /\ formFile' = formFile
             /\ list' = list
     /\ (/\ formMessage # <<>> \/ formFile # NoFile
         /\ formMessage' = <<>>
         /\ formFile' = NoFile)
        => \E s \in Subs :
             /\ sub[s].pc = "post"
             /\ ResOk(sub[s].res)
             /\ sub'[s].posted]_vars

C15_Witness ==
  \E s \in Subs :
    /\ sub[s].pc = "done"
    /\ sub[s].step = "upload"
    /\ ~sub[s].posted
    /\ sub[s].alerts # <<>>
    /\ trim(formMessage) = sub[s].message
    /\ formFile = sub[s].file
    /\ formFile # NoFile

\* C16: when list fetches overlap, the response to a fetch issued earlier
\* never replaces what the response to a fetch issued later has put in the
\* list, so the list ends as the latest fetch left it. Stated for the
\* posts rendered from successful responses
C16_LaterFetchNotOverwritten ==
  [][(shown.how = "rendered" /\ shown'.how = "rendered")
       => shown'.order >= shown.order]_vars
====
